---------------------------- MODULE Spec2Model ----------------------------
(***************************************************************************)
(* A model of src/main.go: the command-line run that loads config.json,    *)
(* fetches the NRQL alert conditions of one policy and writes them to      *)
(* {alertPolicyID}.csv.                                                     *)
(*                                                                         *)
(* Strings are sequences of one-character strings, so that parsing and     *)
(* formatting are computed rather than assumed.  A decoded JSON value is a *)
(* record tagged by its type, as encoding/json produces it for an          *)
(* interface{} target: string, number, bool, null (a nil interface),       *)
(* array ([]interface{}) and object (map[string]interface{}).              *)
(***************************************************************************)
EXTENDS Integers, Sequences, FiniteSets, TLC

VARIABLES pc,             \* position of main: the step it runs next
          configFile,     \* config.json on disk
          config,         \* the *Config main holds
          resp,           \* the outcome of the HTTP round trip
          nrqlConditions, \* the slice fetchNRQLConditions returned
          examined,       \* how many list elements the fetch loop looked at
          file,           \* {alertPolicyID}.csv on disk
          fileBefore,     \* that file as it was when the process started
          log,            \* what the process printed, in order
          exitStatus,     \* the status the process ended with
          steps,          \* the calls main has made, in order, each with the
                          \* error it returned and the fault it met
          thresholdIn,    \* formatThreshold's argument (function-level runs)
          thresholdOut    \* formatThreshold's result  (function-level runs)

vars == <<pc, configFile, config, resp, nrqlConditions, examined, file, fileBefore,
          log, exitStatus, steps, thresholdIn, thresholdOut>>

(***************************************************************************)
(* Bounds of the model.                                                    *)
(***************************************************************************)
MaxLen == 3     \* characters of a threshold string in the function-level runs
MaxConds == 2   \* conditions of a response
MaxTerms == 2   \* terms of a condition

(***************************************************************************)
(* Decoded JSON values.                                                    *)
(***************************************************************************)
JStr(s) == [t |-> "string", s |-> s]
JNum == [t |-> "number"]
JBool(b) == [t |-> "bool", b |-> b]
JNull == [t |-> "null"]
JArr(a) == [t |-> "array", a |-> a]
JObj(o) == [t |-> "object", o |-> o]

\* m[key] on a Go map: the zero value (a nil interface) for an absent key.
Index(m, key) == IF key \in DOMAIN m THEN m[key] ELSE JNull

nil == "nil"

(***************************************************************************)
(* strconv.ParseFloat(value, 64) and fmt.Sprintf("%.f", f), as             *)
(* formatThreshold uses them.  The alphabet of the modelled strings has no *)
(* exponent, hexadecimal or underscore character, so the grammar is: an    *)
(* optional sign, then "inf"/"infinity" in any case, or decimal digits     *)
(* with at most one point and at least one digit; "nan" in any case takes  *)
(* no sign.  A finite value is kept exactly, as sign, numerator and a      *)
(* power-of-ten denominator: for the short strings modelled here the       *)
(* float64 nearest to it lies on the same side of every half-integer, and  *)
(* a half-integer itself is a float64, so rounding the exact value to      *)
(* even equals rounding the float64.                                       *)
(***************************************************************************)
Digits == <<"0", "1", "2", "3", "4", "5", "6", "7", "8", "9">>

IsDigit(c) == \E d \in 1..10 : Digits[d] = c

DigitVal(c) == (CHOOSE d \in 1..10 : Digits[d] = c) - 1

Lower(c) == CASE c = "N" -> "n"
              [] c = "I" -> "i"
              [] c = "A" -> "a"
              [] c = "F" -> "f"
              [] OTHER -> c

LowerAll(s) == [i \in 1..Len(s) |-> Lower(s[i])]

Tail1(s) == SubSeq(s, 2, Len(s))

\* strconv's special(): the whole string must be consumed.
special(s) ==
    LET signed == Len(s) > 0 /\ s[1] \in {"+", "-"}
        body   == LowerAll(IF signed THEN Tail1(s) ELSE s)
    IN  IF body \in {<<"i", "n", "f">>, <<"i", "n", "f", "i", "n", "i", "t", "y">>}
        THEN [ok |-> TRUE, kind |-> "inf", neg |-> signed /\ s[1] = "-"]
        ELSE IF ~signed /\ body = <<"n", "a", "n">>
        THEN [ok |-> TRUE, kind |-> "nan", neg |-> FALSE]
        ELSE [ok |-> FALSE, kind |-> "none", neg |-> FALSE]

\* strconv's readFloat() on the decimal mantissa, one character at a time.
RECURSIVE readFloat(_, _, _, _, _, _)
readFloat(s, i, num, den, sawdot, sawdigits) ==
    IF i > Len(s)
    THEN [ok |-> sawdigits, num |-> num, den |-> den]
    ELSE IF s[i] = "." /\ ~sawdot
    THEN readFloat(s, i + 1, num, den, TRUE, sawdigits)
    ELSE IF IsDigit(s[i])
    THEN readFloat(s, i + 1, 10 * num + DigitVal(s[i]),
                   IF sawdot THEN 10 * den ELSE den, sawdot, TRUE)
    ELSE [ok |-> FALSE, num |-> num, den |-> den]

ParseFloat(s) ==
    LET sp     == special(s)
        signed == Len(s) > 0 /\ s[1] \in {"+", "-"}
        m      == readFloat(IF signed THEN Tail1(s) ELSE s, 1, 0, 1, FALSE, FALSE)
    IN  IF sp.ok
        THEN [err |-> nil, kind |-> sp.kind, neg |-> sp.neg, num |-> 0, den |-> 1]
        ELSE IF m.ok
        THEN [err |-> nil, kind |-> "finite", neg |-> signed /\ s[1] = "-",
              num |-> m.num, den |-> m.den]
        ELSE [err |-> "strconv.ParseFloat: invalid syntax", kind |-> "none",
              neg |-> FALSE, num |-> 0, den |-> 1]

\* The integer nearest to num/den, a tie going to the even one.
RoundHalfEven(num, den) ==
    LET q == num \div den
        r == num % den
    IN  IF 2 * r > den \/ (2 * r = den /\ q % 2 = 1) THEN q + 1 ELSE q

RECURSIVE FormatNat(_)
FormatNat(n) ==
    IF n < 10 THEN <<Digits[n + 1]>> ELSE Append(FormatNat(n \div 10), Digits[(n % 10) + 1])

\* fmt.Sprintf("%.f", f): the sign bit is printed, also that of a negative zero.
SprintfDotF(f) ==
    CASE f.kind = "nan" -> <<"N", "a", "N">>
      [] f.kind = "inf" -> <<(IF f.neg THEN "-" ELSE "+"), "I", "n", "f">>
      [] OTHER -> (IF f.neg THEN <<"-">> ELSE <<>>) \o FormatNat(RoundHalfEven(f.num, f.den))

formatThreshold(value) ==
    LET f == ParseFloat(value)
    IN  IF f.err # nil
        THEN [err |-> f.err, value |-> <<>>]
        ELSE [err |-> nil, value |-> SprintfDotF(f)]

(***************************************************************************)
(* fetchNRQLConditions.  The HTTP round trip is the environment's: resp is *)
(* a transport error, a body that is no JSON text, or a body holding the   *)
(* JSON value j.  The status code is not looked at by the code.            *)
(***************************************************************************)
NetError == [kind |-> "neterr"]
Garbage == [kind |-> "garbage"]
Body(j) == [kind |-> "body", j |-> j]

ZeroTerm == [Duration |-> <<>>, Operator |-> <<>>, Threshold |-> <<>>,
             TimeFunction |-> <<>>, Priority |-> <<>>]

ZeroCondition == [Name |-> <<>>, Terms |-> <<>>, Enabled |-> FALSE]

\* Lines 164-185: the rest of the inner loop's body once the threshold string
\* has been formatted.
termWithThreshold(term, threshold) ==
    IF threshold.err # nil
    THEN [err |-> threshold.err, term |-> ZeroTerm]
    ELSE IF Index(term, "time_function").t # "string"
    THEN [err |-> "time_function field is not a string", term |-> ZeroTerm]
    ELSE IF Index(term, "priority").t # "string"
    THEN [err |-> "priority field is not a string", term |-> ZeroTerm]
    ELSE [err |-> nil,
          term |-> [Duration |-> Index(term, "duration").s,
                    Operator |-> Index(term, "operator").s,
                    Threshold |-> threshold.value,
                    TimeFunction |-> Index(term, "time_function").s,
                    Priority |-> Index(term, "priority").s]]

\* The body of the inner loop: one element of the terms list.
parseTerm(termData) ==
    IF termData.t # "object"
    THEN [err |-> "term has incorrect type", term |-> ZeroTerm]
    ELSE IF Index(termData.o, "duration").t # "string"
    THEN [err |-> "duration field is not a string", term |-> ZeroTerm]
    ELSE IF Index(termData.o, "operator").t # "string"
    THEN [err |-> "operator field is not a string", term |-> ZeroTerm]
    ELSE IF Index(termData.o, "threshold").t # "string"
    THEN [err |-> "threshold field is not a string", term |-> ZeroTerm]
    ELSE termWithThreshold(termData.o, formatThreshold(Index(termData.o, "threshold").s))

\* The inner loop: terms is the slice appended to so far, i the next element,
\* r what the loop's body made of element i.
RECURSIVE termsLoop(_, _, _)
termsNext(termsData, i, terms, r) ==
    IF r.err # nil
    THEN [err |-> r.err, terms |-> <<>>]
    ELSE termsLoop(termsData, i + 1, Append(terms, r.term))

termsLoop(termsData, i, terms) ==
    IF i > Len(termsData)
    THEN [err |-> nil, terms |-> terms]
    ELSE termsNext(termsData, i, terms, parseTerm(termsData[i]))

\* conditionWithTerms refusing a condition without terms.
conditionWithTermsNonEmpty(condition, r) ==
    IF r.err # nil
    THEN [err |-> r.err, condition |-> ZeroCondition]
    ELSE IF r.terms = <<>>
    THEN [err |-> "terms field not found or has incorrect type", condition |-> ZeroCondition]
    ELSE [err |-> nil,
          condition |-> [Name |-> Index(condition, "name").s, Terms |-> r.terms,
                         Enabled |-> Index(condition, "enabled").b]]

\* Lines 142-192: the rest of the outer loop's body once the terms are parsed.
conditionWithTerms(condition, r) ==
    IF r.err # nil
    THEN [err |-> r.err, condition |-> ZeroCondition]
    ELSE [err |-> nil,
          condition |-> [Name |-> Index(condition, "name").s, Terms |-> r.terms,
                         Enabled |-> Index(condition, "enabled").b]]

\* parseCondition looking at enabled before name.
parseConditionEnabledFirst(c) ==
    IF c.t # "object"
    THEN [err |-> "nrql condition has incorrect type", condition |-> ZeroCondition]
    ELSE IF Index(c.o, "enabled").t # "bool"
    THEN [err |-> "enabled field is not a boolean", condition |-> ZeroCondition]
    ELSE IF Index(c.o, "name").t # "string"
    THEN [err |-> "name field is not a string", condition |-> ZeroCondition]
    ELSE IF Index(c.o, "terms").t # "array"
    THEN [err |-> "terms field not found or has incorrect type", condition |-> ZeroCondition]
    ELSE conditionWithTerms(c.o, termsLoop(Index(c.o, "terms").a, 1, <<>>))

\* The body of the outer loop: one element of the nrql_conditions list.
parseCondition(c) ==
    IF c.t # "object"
    THEN [err |-> "nrql condition has incorrect type", condition |-> ZeroCondition]
    ELSE IF Index(c.o, "name").t # "string"
    THEN [err |-> "name field is not a string", condition |-> ZeroCondition]
    ELSE IF Index(c.o, "enabled").t # "bool"
    THEN [err |-> "enabled field is not a boolean", condition |-> ZeroCondition]
    ELSE IF Index(c.o, "terms").t # "array"
    THEN [err |-> "terms field not found or has incorrect type", condition |-> ZeroCondition]
    ELSE conditionWithTerms(c.o, termsLoop(Index(c.o, "terms").a, 1, <<>>))

\* The outer loop.  examined counts the elements the loop's body was run on.
RECURSIVE conditionsLoop(_, _, _)
conditionsNext(conditions, i, acc, r) ==
    IF r.err # nil
    THEN [err |-> r.err, conds |-> <<>>, examined |-> i]
    ELSE conditionsLoop(conditions, i + 1, Append(acc, r.condition))

conditionsLoop(conditions, i, acc) ==
    IF i > Len(conditions)
    THEN [err |-> nil, conds |-> acc, examined |-> i - 1]
    ELSE conditionsNext(conditions, i, acc, parseCondition(conditions[i]))

\* json.NewDecoder(resp.Body).Decode(&data) with data a map[string]interface{}:
\* an object fills the map, null leaves it nil, any other value is an error.
decodeBody(response) ==
    IF response.kind = "garbage"
    THEN [err |-> "invalid character", data |-> <<>>]
    ELSE IF response.j.t = "object"
    THEN [err |-> nil, data |-> response.j.o]
    ELSE IF response.j.t = "null"
    THEN [err |-> nil, data |-> <<>>]
    ELSE [err |-> "json: cannot unmarshal into Go value of type map[string]interface {}",
          data |-> <<>>]

\* extractConditions taking a missing or mis-typed list for an empty one.
extractConditionsLenient(data) ==
    LET v == Index(data, "nrql_conditions")
    IN  IF v.t = "array" THEN [ok |-> TRUE, conditions |-> v.a]
                         ELSE [ok |-> TRUE, conditions |-> <<>>]

\* data["nrql_conditions"].([]interface{})
extractConditions(data) ==
    LET v == Index(data, "nrql_conditions")
    IN  IF v.t = "array" THEN [ok |-> TRUE, conditions |-> v.a]
                         ELSE [ok |-> FALSE, conditions |-> <<>>]

\* Lines 112-195, on the decoded data.
conditionsOf(x) ==
    IF ~x.ok
    THEN [err |-> "nrql_conditions field not found or has incorrect type",
          conds |-> <<>>, examined |-> 0]
    ELSE conditionsLoop(x.conditions, 1, <<>>)

\* Lines 106-195, on the outcome of decoding the body.
fetchDecoded(d) ==
    IF d.err # nil
    THEN [err |-> d.err, conds |-> <<>>, examined |-> 0]
    ELSE conditionsOf(extractConditions(d.data))

fetchNRQLConditions(response) ==
    IF response.kind = "neterr"
    THEN [err |-> "Get: dial tcp: connection refused", conds |-> <<>>, examined |-> 0]
    ELSE fetchDecoded(decodeBody(response))

(***************************************************************************)
(* loadConfig.  config.json is missing (os.Open fails), holds no JSON text *)
(* (garbage, or nothing at all), or starts with the JSON value j; Decode   *)
(* reads that first value only.  Decoding into *Config: null leaves the    *)
(* struct untouched, an object sets the fields whose keys match (exactly   *)
(* or case-insensitively), a null member leaves its field untouched, a     *)
(* member of another type than string is an UnmarshalTypeError, unknown    *)
(* keys are skipped.  The modelled objects never hold two keys of one      *)
(* field.                                                                  *)
(***************************************************************************)
NoFile == [kind |-> "absent"]
NoJSON == [kind |-> "garbage"]
Json(j) == [kind |-> "json", j |-> j]

NilConfig == [isNil |-> TRUE]

\* The struct field a key of the object decodes into ("" for none).
FieldOf(key) ==
    CASE key \in {"apiKey", "APIKEY"} -> "APIKey"
      [] key \in {"alertPolicyID", "alertpolicyid"} -> "AlertPolicyID"
      [] OTHER -> ""

\* The members of object o that decode into struct field f.
Members(o, f) == {o[k] : k \in {x \in DOMAIN o : FieldOf(x) = f}}

\* decodeField refusing an object without a member for the field.
decodeFieldRequired(o, f) ==
    LET ms == Members(o, f)
    IN  IF ms = {} \/ ms = {JNull}
        THEN [err |-> "json: missing field", value |-> <<>>]
        ELSE LET m == CHOOSE x \in ms : x # JNull
             IN  IF m.t = "string"
                 THEN [err |-> nil, value |-> m.s]
                 ELSE [err |-> "json: cannot unmarshal into Go struct field of type string",
                       value |-> <<>>]

\* One string field of the struct after decoding object o.
decodeField(o, f) ==
    LET ms == Members(o, f)
    IN  IF ms = {} \/ ms = {JNull}
        THEN [err |-> nil, value |-> <<>>]
        ELSE LET m == CHOOSE x \in ms : x # JNull
             IN  IF m.t = "string"
                 THEN [err |-> nil, value |-> m.s]
                 ELSE [err |-> "json: cannot unmarshal into Go struct field of type string",
                       value |-> <<>>]

loadConfig(cf) ==
    IF cf.kind = "absent"
    THEN [err |-> "open config.json: no such file or directory", config |-> NilConfig]
    ELSE IF cf.kind = "garbage"
    THEN [err |-> "invalid character", config |-> NilConfig]
    ELSE IF cf.j.t = "null"
    THEN [err |-> nil, config |-> [APIKey |-> <<>>, AlertPolicyID |-> <<>>]]
    ELSE IF cf.j.t # "object"
    THEN [err |-> "json: cannot unmarshal into Go value of type main.Config",
          config |-> NilConfig]
    ELSE LET k == decodeField(cf.j.o, "APIKey")
             a == decodeField(cf.j.o, "AlertPolicyID")
         IN  IF k.err # nil THEN [err |-> k.err, config |-> NilConfig]
             ELSE IF a.err # nil THEN [err |-> a.err, config |-> NilConfig]
             ELSE [err |-> nil, config |-> [APIKey |-> k.value, AlertPolicyID |-> a.value]]

(***************************************************************************)
(* SaveNRQLConditionsAsCSV.  The file is kept as its sequence of CSV       *)
(* records.  What the csv.Writer's buffer holds reaches the file from      *)
(* offset 0 on; a write that fails leaves a prefix of the records behind.  *)
(* fault is the environment's: no fault, os.Create failing, or the writes  *)
(* failing once n records are in the file.                                 *)
(***************************************************************************)
Absent == [exists |-> FALSE]
Content(rows) == [exists |-> TRUE, rows |-> rows]

NoFault == [kind |-> "none", n |-> 0]
CreateFault == [kind |-> "create", n |-> 0]
WriteFault(n) == [kind |-> "write", n |-> n]

header == <<<<"Condition Name">>, <<"Duration">>, <<"Operator">>, <<"Threshold">>,
            <<"Time Function">>, <<"Priority">>, <<"Active">>>>

\* fmt.Sprintf("%t", b)
SprintfT(b) == IF b THEN <<"true">> ELSE <<"false">>

record(condition, term) ==
    <<condition.Name, term.Duration, term.Operator, term.Threshold,
      term.TimeFunction, term.Priority, SprintfT(condition.Enabled)>>

\* termRecords with the loop ending one element early.
RECURSIVE termRecordsDropLast(_, _, _)
termRecordsDropLast(condition, j, out) ==
    IF j >= Len(condition.Terms)
    THEN out
    ELSE termRecordsDropLast(condition, j + 1,
                             Append(out, record(condition, condition.Terms[j])))

\* The inner loop of the writer: the terms of one condition from the j-th on.
RECURSIVE termRecords(_, _, _)
termRecords(condition, j, out) ==
    IF j > Len(condition.Terms)
    THEN out
    ELSE termRecords(condition, j + 1, Append(out, record(condition, condition.Terms[j])))

\* conditionRecords writing every condition's terms under the first condition.
RECURSIVE conditionRecordsFirstOwner(_, _, _)
conditionRecordsFirstOwner(conds, i, out) ==
    IF i > Len(conds)
    THEN out
    ELSE conditionRecordsFirstOwner(conds, i + 1,
             termRecords([conds[i] EXCEPT !.Name = conds[1].Name,
                                         !.Enabled = conds[1].Enabled], 1, out))

\* The outer loop of the writer: the conditions from the i-th on.
RECURSIVE conditionRecords(_, _, _)
conditionRecords(conds, i, out) ==
    IF i > Len(conds)
    THEN out
    ELSE conditionRecords(conds, i + 1, termRecords(conds[i], 1, out))

\* Everything a run without fault writes: the header, then the data.
records(conds) == conditionRecords(conds, 1, <<header>>)

\* osCreate opening the file without O_TRUNC.
osCreateNoTrunc(old) == IF old.exists THEN old ELSE Content(<<>>)

\* os.Create on success: the file exists and is empty (O_CREATE|O_TRUNC).
osCreate(old) == Content(<<>>)

\* recs written from offset 0 over what the file holds.
writeFromStart(f, recs) ==
    Content(recs \o SubSeq(f.rows, Len(recs) + 1, Len(f.rows)))

\* Lines 215-248: what the writer does to the created file.
writeRecords(created, recs, fault) ==
    IF fault.kind = "write"
    THEN [err |-> "write: no space left on device",
          file |-> writeFromStart(created, SubSeq(recs, 1, fault.n))]
    ELSE [err |-> nil, file |-> writeFromStart(created, recs)]

SaveNRQLConditionsAsCSV(old, conds, fault) ==
    IF fault.kind = "create"
    THEN [err |-> "open: permission denied", file |-> old]
    ELSE writeRecords(osCreate(old), records(conds), fault)

\* The faults the environment can produce while conds are saved.
Faults(conds) ==
    {NoFault, CreateFault} \cup {WriteFault(n) : n \in 0..(Len(records(conds)) - 1)}

(***************************************************************************)
(* The inputs of the runs.                                                 *)
(***************************************************************************)
\* An object from a set of [k, v] members with distinct keys.
ObjOf(members) ==
    JObj([key \in {m.k : m \in members} |-> (CHOOSE m \in members : m.k = key).v])

Member(k, v) == [k |-> k, v |-> v]

\* A term as the API sends it.
TermObj(d, o, th, tf, p) ==
    JObj([duration |-> d, operator |-> o, threshold |-> th, time_function |-> tf,
          priority |-> p])

termA == TermObj(JStr(<<"5">>), JStr(<<"above">>), JStr(<<"7", ".", "4">>),
                 JStr(<<"all">>), JStr(<<"critical">>))

termB == TermObj(JStr(<<"10">>), JStr(<<"below">>), JStr(<<"7", ".", "5">>),
                 JStr(<<"any">>), JStr(<<"warning">>))

\* A threshold that is no number, in a term whose priority is no string either.
termBad == TermObj(JStr(<<"5">>), JStr(<<"above">>), JStr(<<"a", "b", "c">>),
                   JStr(<<"all">>), JNum)

CondObj(name, enabled, terms) == JObj([name |-> name, enabled |-> enabled, terms |-> terms])

\* A term whose duration is missing.
termNoDuration == JObj([operator |-> JStr(<<"above">>), threshold |-> JStr(<<"7">>),
                        time_function |-> JStr(<<"all">>), priority |-> JStr(<<"critical">>)])

\* Terms lists of up to MaxTerms well-formed terms: the two terms in turn,
\* starting with either, and the same term repeated.
TermLists ==
    UNION {{[i \in 1..n |-> IF i % 2 = 1 THEN termA ELSE termB],
            [i \in 1..n |-> IF i % 2 = 1 THEN termB ELSE termA],
            [i \in 1..n |-> termA]} : n \in 0..MaxTerms}

\* List elements that do not pass the validation, for different reasons.
BadConditions ==
    {JStr(<<"cpu">>),
     JObj([name |-> JStr(<<"mem">>), terms |-> JNull]),
     CondObj(JStr(<<"cpu">>), JBool(TRUE), JArr(<<termA, termBad, termNoDuration>>)),
     CondObj(JStr(<<"mem">>), JBool(FALSE), JArr(<<termNoDuration, termBad>>))}

\* The list elements the multi-condition responses are made of.
ListConditions ==
    {CondObj(JStr(<<"cpu">>), JBool(TRUE), JArr(ts)) : ts \in TermLists}
    \cup {CondObj(JStr(<<"mem">>), JBool(FALSE), JArr(ts)) : ts \in TermLists}
    \cup BadConditions

\* Responses of up to MaxConds conditions.
ListResponses ==
    {Body(JObj([nrql_conditions |-> JArr(cs)])) :
        cs \in UNION {[1..n -> ListConditions] : n \in 0..MaxConds}}

\* One condition holding one term, each field of the term a string, a number
\* or missing (the threshold also a string that is no number).
FieldValues(good) == {Member("present", good), Member("present", JNum), Member("absent", JNull)}

\* The member of key `key` that choice f stands for, if it stands for one.
Opt(key, f) == IF f.k = "present" THEN {Member(key, f.v)} ELSE {}

TermOf(d, o, th, tf, p) ==
    ObjOf(Opt("duration", d) \cup Opt("operator", o) \cup Opt("threshold", th)
          \cup Opt("time_function", tf) \cup Opt("priority", p))

OneTermShapes ==
    {TermOf(d, o, th, tf, p) :
        d \in FieldValues(JStr(<<"5">>)), o \in FieldValues(JStr(<<"above">>)),
        th \in FieldValues(JStr(<<"7", ".", "5">>)) \cup {Member("present", JStr(<<"a", "b", "c">>))},
        tf \in FieldValues(JStr(<<"all">>)), p \in FieldValues(JStr(<<"critical">>))}
    \cup {JNum, JNull}

OneTermResponses ==
    {Body(JObj([nrql_conditions |->
                   JArr(<<CondObj(JStr(<<"cpu">>), JBool(TRUE), JArr(<<termA, t>>))>>)])) :
        t \in OneTermShapes}

\* One condition, each of its fields of the right type, of a wrong one or missing.
CondOf(n, e, ts) == ObjOf(Opt("name", n) \cup Opt("enabled", e) \cup Opt("terms", ts))

OneConditionShapes ==
    {CondOf(n, e, ts) :
        n \in FieldValues(JStr(<<"cpu">>)),
        e \in {Member("present", JBool(TRUE)), Member("present", JStr(<<"true">>)),
               Member("absent", JNull)},
        ts \in {Member("present", JArr(<<termA>>)), Member("present", JArr(<<>>)),
                Member("present", JArr(<<termBad>>)), Member("present", JNull),
                Member("present", JObj(<<>>)), Member("absent", JNull)}}
    \cup {JNum, JNull, JArr(<<>>)}

OneConditionResponses ==
    {Body(JObj([nrql_conditions |-> JArr(<<c>>)])) : c \in OneConditionShapes}

\* Round trips that give no list of conditions at all.
NoListResponses ==
    {NetError, Garbage, Body(JNull), Body(JArr(<<>>)), Body(JStr(<<"error">>)),
     Body(JObj(<<>>)), Body(JObj([error |-> JStr(<<"Invalid API key">>)])),
     Body(JObj([nrql_conditions |-> JNull])),
     Body(JObj([nrql_conditions |-> JObj(<<>>)])),
     Body(JObj([nrql_conditions |-> JStr(<<"none">>)]))}

Responses == ListResponses \cup OneTermResponses \cup OneConditionResponses \cup NoListResponses

\* config.json as the whole run finds it.
goodConfig == Json(JObj([apiKey |-> JStr(<<"NRAK-1">>), alertPolicyID |-> JStr(<<"123">>)]))

RunConfigFiles == {NoFile, NoJSON, Json(JArr(<<>>)), goodConfig}

\* config.json in the runs of loadConfig alone: each field under its own key,
\* under a key of another case, or missing; a string, the empty string, a
\* number or null; with or without a key the struct does not have.
ConfigObjects ==
    {ObjOf(k \cup a \cup x) :
        k \in {{}, {Member("apiKey", JStr(<<"NRAK-1">>))}, {Member("apiKey", JStr(<<>>))},
               {Member("apiKey", JNum)}, {Member("apiKey", JNull)},
               {Member("APIKEY", JStr(<<"NRAK-2">>))}},
        a \in {{}, {Member("alertPolicyID", JStr(<<"123">>))},
               {Member("alertPolicyID", JStr(<<>>))}, {Member("alertPolicyID", JNum)},
               {Member("alertPolicyID", JNull)},
               {Member("alertpolicyid", JStr(<<"456">>))}},
        x \in {{}, {Member("region", JStr(<<"eu">>))}}}

ConfigFiles ==
    {NoFile, NoJSON, Json(JNull), Json(JArr(<<>>)), Json(JStr(<<"NRAK-1">>)), Json(JNum)}
    \cup {Json(o) : o \in ConfigObjects}

\* A file a previous run left: more rows than any run of this model writes.
staleRecord == <<<<"old">>, <<"1">>, <<"equal">>, <<"0">>, <<"all">>, <<"critical">>, <<"true">>>>

StaleFile == Content(<<header>> \o [i \in 1..(MaxConds * MaxTerms + 1) |-> staleRecord])

\* The threshold strings of the runs of formatThreshold alone.
Alphabet == {"0", "4", "5", "7", "9", ".", "-", "+", "N", "a", "n", "I", "f"}

ThresholdStrings == UNION {[1..n -> Alphabet] : n \in 0..MaxLen}

(***************************************************************************)
(* main, one action per call it makes.  Returning from main ends the       *)
(* process with status 0, whichever return it is.                          *)
(***************************************************************************)
Idle ==
    /\ thresholdIn = <<>>
    /\ thresholdOut = [err |-> nil, value |-> <<>>]

InitRun(configs, files) ==
    /\ pc = "loadConfig"
    /\ configFile \in configs
    /\ config = NilConfig
    /\ resp = NetError
    /\ nrqlConditions = <<>>
    /\ examined = 0
    /\ fileBefore \in files
    /\ file = fileBefore
    /\ log = <<>>
    /\ exitStatus = -1
    /\ steps = <<>>
    /\ Idle

Init == InitRun(RunConfigFiles, {Absent, StaleFile})

\* Lines 36-40.
LoadConfig ==
    /\ pc = "loadConfig"
    /\ \E r \in {loadConfig(configFile)} :
           /\ steps' = Append(steps, [call |-> "loadConfig", err |-> r.err, fault |-> NoFault])
           /\ config' = r.config
           /\ IF r.err # nil
              THEN /\ log' = Append(log, "Error loading configuration:")
                   /\ pc' = "exit"
                   /\ exitStatus' = 0
              ELSE /\ pc' = "fetch"
                   /\ UNCHANGED <<log, exitStatus>>
    /\ UNCHANGED <<configFile, resp, nrqlConditions, examined, file, fileBefore,
                   thresholdIn, thresholdOut>>

\* Fetch without the return after the error message.
FetchNoReturn ==
    /\ pc = "fetch"
    /\ \E response \in Responses :
       \E r \in {fetchNRQLConditions(response)} :
              /\ resp' = response
              /\ steps' = Append(steps, [call |-> "fetchNRQLConditions", err |-> r.err,
                                       fault |-> NoFault])
              /\ nrqlConditions' = r.conds
              /\ examined' = r.examined
              /\ log' = IF r.err # nil
                        THEN Append(log, "Error fetching NRQL alert conditions:")
                        ELSE log
              /\ pc' = "print"
              /\ UNCHANGED exitStatus
    /\ UNCHANGED <<configFile, config, file, fileBefore, thresholdIn, thresholdOut>>

\* Lines 43-47.
Fetch ==
    /\ pc = "fetch"
    /\ \E response \in Responses :
       \E r \in {fetchNRQLConditions(response)} :
              /\ resp' = response
              /\ steps' = Append(steps, [call |-> "fetchNRQLConditions", err |-> r.err,
                                       fault |-> NoFault])
              /\ nrqlConditions' = r.conds
              /\ examined' = r.examined
              /\ IF r.err # nil
                 THEN /\ log' = Append(log, "Error fetching NRQL alert conditions:")
                      /\ pc' = "exit"
                      /\ exitStatus' = 0
                 ELSE /\ pc' = "print"
                      /\ UNCHANGED <<log, exitStatus>>
    /\ UNCHANGED <<configFile, config, file, fileBefore, thresholdIn, thresholdOut>>

\* Lines 50-62.
PrintConditions ==
    /\ pc = "print"
    /\ log' = Append(log, "NRQL Alert Conditions for Policy ID")
    /\ pc' = "save"
    /\ UNCHANGED <<configFile, config, resp, nrqlConditions, examined, file, fileBefore,
                   exitStatus, steps, thresholdIn, thresholdOut>>

\* Lines 63-69.
Save ==
    /\ pc = "save"
    /\ \E fault \in Faults(nrqlConditions) :
       \E r \in {SaveNRQLConditionsAsCSV(file, nrqlConditions, fault)} :
              /\ steps' = Append(steps, [call |-> "SaveNRQLConditionsAsCSV", err |-> r.err,
                                       fault |-> fault])
              /\ file' = r.file
              /\ log' = Append(log, IF r.err # nil THEN "Error:"
                                                   ELSE "CSV file saved successfully")
    /\ pc' = "exit"
    /\ exitStatus' = 0
    /\ UNCHANGED <<configFile, config, resp, nrqlConditions, examined, fileBefore,
                   thresholdIn, thresholdOut>>

Next == LoadConfig \/ Fetch \/ PrintConditions \/ Save

Spec == Init /\ [][Next]_vars

(***************************************************************************)
(* loadConfig alone, on every modelled config.json.                        *)
(***************************************************************************)
InitConfig == InitRun(ConfigFiles, {Absent})

SpecConfig == InitConfig /\ [][LoadConfig]_vars

(***************************************************************************)
(* formatThreshold alone, on every string over the alphabet.               *)
(***************************************************************************)
InitThreshold ==
    /\ pc = "formatThreshold"
    /\ configFile = NoFile
    /\ config = NilConfig
    /\ resp = NetError
    /\ nrqlConditions = <<>>
    /\ examined = 0
    /\ fileBefore = Absent
    /\ file = Absent
    /\ log = <<>>
    /\ exitStatus = -1
    /\ steps = <<>>
    /\ thresholdIn \in ThresholdStrings
    /\ thresholdOut = [err |-> nil, value |-> <<>>]

FormatThreshold ==
    /\ pc = "formatThreshold"
    /\ thresholdOut' = formatThreshold(thresholdIn)
    /\ pc' = "returned"
    /\ UNCHANGED <<configFile, config, resp, nrqlConditions, examined, file, fileBefore,
                   log, exitStatus, steps, thresholdIn>>

SpecThreshold == InitThreshold /\ [][FormatThreshold]_vars

(***************************************************************************)
(* What the properties below speak about.                                  *)
(***************************************************************************)
Called(name) == \E k \in DOMAIN steps : steps[k].call = name

StepOf(name) == steps[CHOOSE k \in DOMAIN steps : steps[k].call = name]

Fetched == Called("fetchNRQLConditions")

FetchedOK == Fetched /\ StepOf("fetchNRQLConditions").err = nil

SaveReturned == Called("SaveNRQLConditionsAsCSV")

Saved == SaveReturned /\ StepOf("SaveNRQLConditionsAsCSV").err = nil

\* The response holds a list under nrql_conditions.
HasList(r) ==
    /\ r.kind = "body"
    /\ r.j.t = "object"
    /\ Index(r.j.o, "nrql_conditions").t = "array"

ListOf(r) == r.j.o["nrql_conditions"].a

\* The number of terms of element c of the list, as the API sent it.
TermsOf(c) == c.o["terms"].a

RECURSIVE TermCount(_)
TermCount(list) ==
    IF list = <<>> THEN 0 ELSE Len(TermsOf(Head(list))) + TermCount(Tail(list))

\* The number of terms of the conditions before the i-th.
Offset(list, i) == TermCount(SubSeq(list, 1, i - 1))

\* The row the j-th term of the i-th condition of the response stands for.
ExpectedRow(list, i, j) ==
    LET c == list[i].o
        t == TermsOf(list[i])[j].o
    IN  <<c["name"].s, t["duration"].s, t["operator"].s,
          formatThreshold(t["threshold"].s).value, t["time_function"].s, t["priority"].s,
          IF c["enabled"].b THEN <<"true">> ELSE <<"false">>>>

\* The places <<i, j>> of the terms of the response.
Positions(list) ==
    UNION {{<<i, j>> : j \in 1..Len(TermsOf(list[i]))} : i \in 1..Len(list)}

\* The checks the validation makes on list element c, in the order it makes
\* them; a check that presupposes an earlier one counts as passed when that
\* one fails.
TermChecks(t) ==
    LET isObj == t.t = "object"
        str(key) == isObj /\ Index(t.o, key).t = "string"
    IN  <<[ok |-> isObj, msg |-> "term has incorrect type"],
          [ok |-> isObj => str("duration"), msg |-> "duration field is not a string"],
          [ok |-> isObj => str("operator"), msg |-> "operator field is not a string"],
          [ok |-> isObj => str("threshold"), msg |-> "threshold field is not a string"],
          [ok |-> str("threshold") => ParseFloat(t.o["threshold"].s).err = nil,
           msg |-> "strconv.ParseFloat: invalid syntax"],
          [ok |-> isObj => str("time_function"),
           msg |-> "time_function field is not a string"],
          [ok |-> isObj => str("priority"), msg |-> "priority field is not a string"]>>

RECURSIVE TermsChecks(_)
TermsChecks(ts) == IF ts = <<>> THEN <<>> ELSE TermChecks(Head(ts)) \o TermsChecks(Tail(ts))

ConditionChecks(c) ==
    LET isObj == c.t = "object"
        hasTerms == isObj /\ Index(c.o, "terms").t = "array"
    IN  <<[ok |-> isObj, msg |-> "nrql condition has incorrect type"],
          [ok |-> isObj => Index(c.o, "name").t = "string",
           msg |-> "name field is not a string"],
          [ok |-> isObj => Index(c.o, "enabled").t = "bool",
           msg |-> "enabled field is not a boolean"],
          [ok |-> isObj => hasTerms, msg |-> "terms field not found or has incorrect type"]>>
        \o (IF hasTerms THEN TermsChecks(c.o["terms"].a) ELSE <<>>)

\* The failing checks of a list: <<i, k>> is the k-th check of the i-th element.
Violations(list) ==
    UNION {LET checks == ConditionChecks(list[i])
           IN  {<<i, k>> : k \in {n \in DOMAIN checks : ~checks[n].ok}} :
           i \in 1..Len(list)}

\* The first of them in response order.
FirstViolation(list) ==
    LET viol == Violations(list)
    IN  CHOOSE v \in viol : \A w \in viol : v[1] < w[1] \/ (v[1] = w[1] /\ v[2] <= w[2])

(***************************************************************************)
(* C1.  After a successful run of SaveNRQLConditionsAsCSV on a fetched     *)
(* response of N conditions with T_i terms each, the file holds exactly    *)
(* 1 + sum(T_i) rows: the header, then data rows among which each term's   *)
(* row occurs as often as terms of the response stand for it (none is      *)
(* dropped, none written twice).                                           *)
(***************************************************************************)
C1_RowCount ==
    Saved =>
        /\ file.exists
        /\ Len(file.rows) = 1 + TermCount(ListOf(resp))
        /\ file.rows[1] = header
        /\ \A p \in Positions(ListOf(resp)) :
              LET row == ExpectedRow(ListOf(resp), p[1], p[2])
              IN  Cardinality({k \in 2..Len(file.rows) : file.rows[k] = row})
                  = Cardinality({q \in Positions(ListOf(resp)) :
                                    ExpectedRow(ListOf(resp), q[1], q[2]) = row})

C1_Witness ==
    /\ Saved
    /\ Len(ListOf(resp)) = 2
    /\ TermCount(ListOf(resp)) = 3
    /\ Len(file.rows) = 4

(***************************************************************************)
(* C2.  When the decoded body has no nrql_conditions key, or the key holds *)
(* no list, fetchNRQLConditions returns the response-shape error and the   *)
(* run ends with the output file as it was (not created, not truncated);   *)
(* on every path SaveNRQLConditionsAsCSV, which creates the file, is       *)
(* called only after fetchNRQLConditions returned without error, and the   *)
(* file differs from what it was only once that call was made.             *)
(***************************************************************************)
NoListKey(r) ==
    /\ r.kind = "body"
    /\ r.j.t \in {"object", "null"}
    /\ Index(IF r.j.t = "object" THEN r.j.o ELSE <<>>, "nrql_conditions").t # "array"

C2_NoFileWithoutList ==
    /\ (Fetched /\ NoListKey(resp)) =>
          /\ StepOf("fetchNRQLConditions").err
                = "nrql_conditions field not found or has incorrect type"
          /\ pc = "exit"
          /\ ~SaveReturned
          /\ file = fileBefore
    /\ SaveReturned => FetchedOK
    /\ file # fileBefore => SaveReturned
    /\ pc = "save" => FetchedOK

C2_Witness ==
    /\ Fetched
    /\ NoListKey(resp)
    /\ resp.j.t = "object"
    /\ "nrql_conditions" \notin DOMAIN resp.j.o
    /\ fileBefore = StaleFile
    /\ pc = "exit"

(***************************************************************************)
(* C4.  End to end, the data rows are in the order of the response,        *)
(* condition by condition and term by term: the row after the rows of the  *)
(* earlier conditions and of the earlier terms of the same condition       *)
(* carries the fields of that term (the threshold as formatThreshold       *)
(* renders it) with the name and the enabled flag, as true/false, of the   *)
(* condition that owns the term.                                           *)
(***************************************************************************)
C4_RowOrder ==
    Saved =>
        \A p \in Positions(ListOf(resp)) :
            /\ 1 + Offset(ListOf(resp), p[1]) + p[2] \in DOMAIN file.rows
            /\ file.rows[1 + Offset(ListOf(resp), p[1]) + p[2]]
                  = ExpectedRow(ListOf(resp), p[1], p[2])

C4_Witness ==
    /\ Saved
    /\ Len(ListOf(resp)) = 2
    /\ ListOf(resp)[1].o["name"] # ListOf(resp)[2].o["name"]
    /\ TermsOf(ListOf(resp)[1]) = <<termB, termA>>
    /\ TermsOf(ListOf(resp)[2]) = <<termA>>
    /\ file.rows[4][1] = <<"mem">>
    /\ file.rows[4][7] = <<"false">>
    /\ file.rows[2][4] = <<"8">>

(***************************************************************************)
(* C5.  A successful SaveNRQLConditionsAsCSV leaves exactly the header and *)
(* the rows of the current input in the file, whatever the file held       *)
(* before: no row of a longer previous content stays behind.               *)
(***************************************************************************)
ExpectedRows(list) ==
    [k \in 1..TermCount(list) |->
        LET p == CHOOSE q \in Positions(list) : Offset(list, q[1]) + q[2] = k
        IN  ExpectedRow(list, p[1], p[2])]

C5_Overwrite ==
    Saved =>
        /\ file = Content(<<header>> \o ExpectedRows(ListOf(resp)))
        /\ Len(file.rows) = 1 + TermCount(ListOf(resp))
        /\ \A k \in DOMAIN file.rows : file.rows[k] # staleRecord

C5_Witness ==
    /\ Saved
    /\ fileBefore = StaleFile
    /\ Len(file.rows) = 2
    /\ Len(fileBefore.rows) > Len(file.rows)

(***************************************************************************)
(* C6.  A condition with zero terms is no error: when every element of the *)
(* list is well-formed and one of them has an empty terms list,            *)
(* fetchNRQLConditions returns all conditions without error, and a save    *)
(* that meets no I/O fault returns without error, writes the rows of the   *)
(* other conditions and none for the empty one, and the run ends with the  *)
(* success message.                                                        *)
(***************************************************************************)
WellFormed(c) == LET checks == ConditionChecks(c) IN \A k \in DOMAIN checks : checks[k].ok

HasEmptyCondition(r) ==
    /\ HasList(r)
    /\ \A i \in DOMAIN ListOf(r) : WellFormed(ListOf(r)[i])
    /\ \E i \in DOMAIN ListOf(r) : TermsOf(ListOf(r)[i]) = <<>>

C6_EmptyCondition ==
    (Fetched /\ HasEmptyCondition(resp)) =>
        /\ FetchedOK
        /\ Len(nrqlConditions) = Len(ListOf(resp))
        /\ \A i \in DOMAIN nrqlConditions :
              Len(nrqlConditions[i].Terms) = Len(TermsOf(ListOf(resp)[i]))
        /\ (SaveReturned /\ StepOf("SaveNRQLConditionsAsCSV").fault = NoFault) =>
              /\ Saved
              /\ Len(file.rows) = 1 + TermCount(ListOf(resp))
              /\ \A p \in Positions(ListOf(resp)) :
                    file.rows[1 + Offset(ListOf(resp), p[1]) + p[2]]
                       = ExpectedRow(ListOf(resp), p[1], p[2])
              /\ log[Len(log)] = "CSV file saved successfully"
              /\ pc = "exit"

C6_Witness ==
    /\ Saved
    /\ Len(ListOf(resp)) = 2
    /\ TermsOf(ListOf(resp)[1]) = <<>>
    /\ TermsOf(ListOf(resp)[2]) = <<termA, termB>>
    /\ Len(file.rows) = 3
    /\ log[Len(log)] = "CSV file saved successfully"

(***************************************************************************)
(* C9.  fetchNRQLConditions checks the list element by element and, in an  *)
(* element, in the order condition object, name, enabled, terms, then per  *)
(* term: term object, duration, operator, threshold, time_function,        *)
(* priority.  It stops at the first failing check in response order: the   *)
(* error is the one of that check, the loop has looked at no element after *)
(* the one that fails, and no conditions are returned.  A list without a   *)
(* failing check is returned whole.                                        *)
(***************************************************************************)
C9_FirstViolation ==
    (Fetched /\ HasList(resp)) =>
        IF Violations(ListOf(resp)) = {}
        THEN /\ FetchedOK
             /\ examined = Len(ListOf(resp))
             /\ Len(nrqlConditions) = Len(ListOf(resp))
        ELSE LET v == FirstViolation(ListOf(resp))
             IN  /\ StepOf("fetchNRQLConditions").err
                       = ConditionChecks(ListOf(resp)[v[1]])[v[2]].msg
                 /\ examined = v[1]
                 /\ nrqlConditions = <<>>
                 /\ pc = "exit"

C9_Witness ==
    /\ Fetched
    /\ HasList(resp)
    /\ Len(ListOf(resp)) = 2
    /\ WellFormed(ListOf(resp)[1])
    /\ Cardinality(Violations(ListOf(resp))) >= 3
    /\ examined = 2
    /\ StepOf("fetchNRQLConditions").err = "strconv.ParseFloat: invalid syntax"
    /\ nrqlConditions = <<>>

(***************************************************************************)
(* C10.  Every error is terminal and nothing is retried: a call that       *)
(* returned an error is the last call main makes, the run has ended,       *)
(* exactly one error message was printed and "CSV file saved successfully" *)
(* was not; no call is made twice.  A fault while the file is created      *)
(* leaves the file as it was, and a fault while the records are written    *)
(* leaves the records already in the file there: the file is neither       *)
(* restored nor deleted.                                                   *)
(***************************************************************************)
ErrorMessages ==
    {"Error loading configuration:", "Error fetching NRQL alert conditions:", "Error:"}

ErrorsLogged == Cardinality({m \in DOMAIN log : log[m] \in ErrorMessages})

C10_ErrorsTerminal ==
    /\ \A k \in DOMAIN steps :
          steps[k].err # nil =>
              /\ k = Len(steps)
              /\ pc = "exit"
              /\ ErrorsLogged = 1
              /\ \A m \in DOMAIN log : log[m] # "CSV file saved successfully"
    /\ \A k, m \in DOMAIN steps : steps[k].call = steps[m].call => k = m
    /\ (\A k \in DOMAIN steps : steps[k].err = nil) => ErrorsLogged = 0
    /\ SaveReturned =>
          LET st == StepOf("SaveNRQLConditionsAsCSV")
              all == <<header>> \o ExpectedRows(ListOf(resp))
          IN  /\ st.fault.kind = "create" => (st.err # nil /\ file = fileBefore)
              /\ st.fault.kind = "write" =>
                    (st.err # nil /\ file = Content(SubSeq(all, 1, st.fault.n)))

C10_Witness ==
    /\ SaveReturned
    /\ StepOf("SaveNRQLConditionsAsCSV").fault = WriteFault(2)
    /\ StepOf("SaveNRQLConditionsAsCSV").err # nil
    /\ fileBefore = StaleFile
    /\ Len(file.rows) = 2
    /\ TermCount(ListOf(resp)) = 3
    /\ log[Len(log)] = "Error:"
    /\ pc = "exit"

(***************************************************************************)
(* C8.  The exit status tells success from failure: it is 0 exactly when   *)
(* loading the configuration, fetching the conditions and writing the CSV  *)
(* all succeeded.                                                          *)
(***************************************************************************)
C8_ExitStatus ==
    pc = "exit" =>
        (exitStatus = 0 <=> (Saved /\ \A k \in DOMAIN steps : steps[k].err = nil))

(***************************************************************************)
(* C7.  As claimed: loadConfig fails when the file cannot be opened and    *)
(* when the content is not valid JSON of the expected shape, an object     *)
(* with string fields apiKey and alertPolicyID; whenever it returns a      *)
(* Configuration, both fields hold the values present in the file (no      *)
(* default stands in for an absent field, no Configuration is partial).    *)
(***************************************************************************)
Fields == {"APIKey", "AlertPolicyID"}

\* The strings the file's object gives struct field f.
StringsFor(o, f) == {m.s : m \in {x \in Members(o, f) : x.t = "string"}}

ExpectedShape(cf) ==
    /\ cf.kind = "json"
    /\ cf.j.t = "object"
    /\ \A f \in Fields : StringsFor(cf.j.o, f) # {}
    /\ \A f \in Fields : \A m \in Members(cf.j.o, f) : m.t = "string"

C7_NoPartialConfig ==
    Called("loadConfig") =>
        /\ ~ExpectedShape(configFile) => StepOf("loadConfig").err # nil
        /\ StepOf("loadConfig").err = nil =>
              /\ ExpectedShape(configFile)
              /\ \A f \in Fields : config[f] \in StringsFor(configFile.j.o, f)

(***************************************************************************)
(* C7, amended.  loadConfig fails with a read error when the file cannot   *)
(* be opened, and with a parse error when the file does not start with a   *)
(* JSON value, when that value is neither an object nor null, or when the  *)
(* object gives apiKey or alertPolicyID a value that is neither a string   *)
(* nor null.  Otherwise it returns a Configuration in which a field the    *)
(* file gives a string holds that string and a field that is absent or     *)
(* null holds the empty string: the Configuration can be partial or empty. *)
(***************************************************************************)
C7_LoadConfig ==
    Called("loadConfig") =>
        LET err == StepOf("loadConfig").err
        IN  IF configFile.kind = "absent"
            THEN err = "open config.json: no such file or directory" /\ config = NilConfig
            ELSE IF configFile.kind = "garbage"
            THEN err # nil /\ config = NilConfig
            ELSE IF configFile.j.t = "null"
            THEN err = nil /\ config = [APIKey |-> <<>>, AlertPolicyID |-> <<>>]
            ELSE IF configFile.j.t # "object"
            THEN err # nil /\ config = NilConfig
            ELSE IF \E f \in Fields : \E m \in Members(configFile.j.o, f) :
                        m.t \notin {"string", "null"}
            THEN err # nil /\ config = NilConfig
            ELSE /\ err = nil
                 /\ DOMAIN config = Fields
                 /\ \A f \in Fields :
                       IF StringsFor(configFile.j.o, f) = {}
                       THEN config[f] = <<>>
                       ELSE config[f] \in StringsFor(configFile.j.o, f)

C7_Witness ==
    /\ Called("loadConfig")
    /\ StepOf("loadConfig").err = nil
    /\ configFile.j.t = "object"
    /\ DOMAIN configFile.j.o = {"alertPolicyID"}
    /\ config = [APIKey |-> <<>>, AlertPolicyID |-> <<"123">>]
    /\ pc = "fetch"

(***************************************************************************)
(* C3.  formatThreshold turns every numeric threshold string into the      *)
(* decimal rendering, without fractional digits, of its value rounded to   *)
(* the nearest integer, so that every threshold it lets through is a       *)
(* decimal string without fractional digits; a string that is no number    *)
(* is an error.                                                            *)
(***************************************************************************)
Unsigned(s) == IF Len(s) > 0 /\ s[1] \in {"+", "-"} THEN Tail1(s) ELSE s

\* An optional sign, then digits with at most one point among them.
IsDecimalNumeral(s) ==
    /\ \A i \in DOMAIN Unsigned(s) : IsDigit(Unsigned(s)[i]) \/ Unsigned(s)[i] = "."
    /\ Cardinality({i \in DOMAIN Unsigned(s) : Unsigned(s)[i] = "."}) <= 1
    /\ \E i \in DOMAIN Unsigned(s) : IsDigit(Unsigned(s)[i])

\* An optional minus, then digits only.
IsIntegerString(s) ==
    LET d == IF Len(s) > 0 /\ s[1] = "-" THEN Tail1(s) ELSE s
    IN  Len(d) > 0 /\ \A i \in DOMAIN d : IsDigit(d[i])

\* The number a sequence of digits (a point among them skipped) spells.
RECURSIVE DigitsValue(_)
DigitsValue(d) ==
    IF d = <<>> THEN 0
    ELSE IF d[Len(d)] = "." THEN DigitsValue(SubSeq(d, 1, Len(d) - 1))
    ELSE 10 * DigitsValue(SubSeq(d, 1, Len(d) - 1)) + DigitVal(d[Len(d)])

\* The digits after the point.
FractionLen(d) ==
    IF \E i \in DOMAIN d : d[i] = "."
    THEN Len(d) - (CHOOSE i \in DOMAIN d : d[i] = ".")
    ELSE 0

RECURSIVE Pow10(_)
Pow10(n) == IF n = 0 THEN 1 ELSE 10 * Pow10(n - 1)

Abs(n) == IF n < 0 THEN -n ELSE n

\* out spells an integer no other integer is nearer to the value of in than,
\* with the sign of in unless it spells zero.
IsNearestInteger(out, in) ==
    LET den == Pow10(FractionLen(Unsigned(in)))
        num == DigitsValue(Unsigned(in))
        n   == DigitsValue(Unsigned(out))
    IN  /\ IsIntegerString(out)
        /\ 2 * Abs(num - n * den) <= den
        /\ n # 0 => ((out[1] = "-") <=> (in[1] = "-"))

C3_ThresholdNormalised ==
    pc = "returned" =>
        /\ IsDecimalNumeral(thresholdIn) =>
              (thresholdOut.err = nil /\ IsNearestInteger(thresholdOut.value, thresholdIn))
        /\ thresholdOut.err = nil => IsIntegerString(thresholdOut.value)
        /\ (\A i \in DOMAIN thresholdIn : ~IsDigit(thresholdIn[i])) => thresholdOut.err # nil

\* The part of C3 that holds: decimal numerals are rounded to the nearest
\* integer, and what formatThreshold lets through is such a rendering or the
\* rendering of one of ParseFloat's special values.
C3_DecimalNumerals ==
    pc = "returned" =>
        /\ IsDecimalNumeral(thresholdIn) =>
              (thresholdOut.err = nil /\ IsNearestInteger(thresholdOut.value, thresholdIn))
        /\ thresholdOut.err = nil =>
              \/ IsDecimalNumeral(thresholdIn)
              \/ thresholdOut.value \in {<<"N", "a", "N">>, <<"+", "I", "n", "f">>,
                                         <<"-", "I", "n", "f">>}

=============================================================================
